---- MODULE Spec2Model ----
(***************************************************************************)
(* Multi-agent Text2SQL orchestrator (text_2_sql / autogen).               *)
(*                                                                         *)
(* The agent flow (selector, termination conditions, cache behaviour,     *)
(* agent outputs) follows the AutoGen README and the agent prompt files.  *)
(* The orchestrator around it (process_user_message, rounds, sub-Runs,    *)
(* State Store, payloads) is not part of the available sources and        *)
(* follows the algorithm of the specification, section 4.1.               *)
(***************************************************************************)
EXTENDS Integers, Sequences, FiniteSets, TLC

\* ---------------------------------------------------------------- bounds
MaxInvocations == 2          \* process_user_message calls on the thread
MaxRounds == 2               \* decomposition rounds produced by Query Rewrite
MaxInnerRuns == 2            \* inner Runs spawned on the thread, all invocations
NumQuestions == 1            \* distinct question keys of the query cache

\* ------------------------------------------------------ program constants
max_messages == 20           \* "Maximum of 20 messages reached"

SubIds == {1, 2}             \* sub-question slots of one round
SqlKinds == {"select", "write"}   \* a single SELECT / a write or DDL statement

NoSub == [status |-> "none", last |-> "none", content |-> "none", n |-> 0,
          sql |-> "none", rows |-> 0, error |-> "none"]

NoEntry == [sql |-> "none", rows |-> 0]

\* Cache key of the question asked by sub-question i; questions that are
\* similar enough share a key.
Questions == 1..NumQuestions
QuestionOf(i) == ((i - 1) % NumQuestions) + 1

VARIABLES
  use_query_cache,      \* Text2Sql__UseQueryCache
  pre_run_query_cache,  \* Text2Sql__PreRunQueryCache
  invocation,           \* number of process_user_message calls started
  pc,                   \* position of the orchestrator
  out,                  \* payloads emitted by the current (or last) invocation
  state_store,          \* State Store entry of the thread_id (NoState or a snapshot)
  resumed,              \* the current invocation loaded the Run from the store
  rewrites,             \* Query Rewrite invocations of the current Run
  entry_agent,          \* first agent invoked in the current invocation
  decomposition,        \* decomposed_user_messages: sizes of the rounds
  current_round,
  subs,                 \* sub-Runs of the current round
  cancel,               \* Run-scoped cancel flag
  sources,              \* sources accumulated over the rounds
  inner_runs,           \* inner Runs spawned so far on the thread
  cache                 \* query cache, keyed by the sub-question

vars == <<use_query_cache, pre_run_query_cache, invocation, pc, out, state_store,
          resumed, rewrites, entry_agent, decomposition, current_round, subs,
          cancel, sources, inner_runs, cache>>

config == <<use_query_cache, pre_run_query_cache>>

\* ----------------------------------------------------------------- router

\* Faulty variant of HasTerminate: the error object of Correction is not
\* taken as the end of the conversation.
HasTerminateUnlessError(content) == content \in {"request", "validated"}

\* Termination conditions of the flow.
HasTerminate(content) == content \in {"request", "validated", "unrecoverable"}

HasAnswerAndSources(content) == content = "answer_and_sources"

\* Faulty variant of termination_condition: the limit is tested one message late.
termination_condition_late(content, n) ==
  \/ HasTerminate(content)
  \/ HasAnswerAndSources(content)
  \/ n > max_messages

\* Faulty variant of termination_condition: a TERMINATE mention is ignored.
termination_condition_no_token(content, n) ==
  \/ HasAnswerAndSources(content)
  \/ n >= max_messages

termination_condition(content, n) ==
  \/ HasTerminate(content)
  \/ HasAnswerAndSources(content)
  \/ n >= max_messages

\* Faulty variant of select_next_agent: after Query Rewrite the selector looks
\* into the cache index to decide whether the cache agent is worth a call.
select_next_agent_peeks_cache(last, content) ==
  CASE last = "user" -> "query_rewrite"
    [] last = "query_rewrite" ->
         IF use_query_cache /\ \E q \in DOMAIN cache : cache[q].sql # "none"
         THEN "cache" ELSE "schema_selection"
    [] last = "cache" /\ content = "hit_pre_run" -> "correction"
    [] last = "cache" /\ content = "hit_no_pre_run" -> "generation"
    [] last = "cache" /\ content = "miss" -> "schema_selection"
    [] last = "schema_selection" -> "disambiguation"
    [] last = "disambiguation" -> "generation"
    [] last = "generation" -> "correction"
    [] last = "correction" /\ content = "executing" -> "correction"
    [] last = "correction" /\ content = "needs_fixes" -> "generation"
    [] last = "correction" /\ content = "error" -> "generation"
    [] last = "correction" /\ content = "validated" -> "answer"
    [] OTHER -> "TERMINATE"

\* Faulty variant of select_next_agent: a cache hit without pre-run results is
\* sent through schema selection like a miss.
select_next_agent_hit_reselects(last, content) ==
  CASE last = "user" -> "query_rewrite"
    [] last = "query_rewrite" ->
         IF use_query_cache THEN "cache" ELSE "schema_selection"
    [] last = "cache" /\ content = "hit_pre_run" -> "correction"
    [] last = "cache" /\ content = "hit_no_pre_run" -> "schema_selection"
    [] last = "cache" /\ content = "miss" -> "schema_selection"
    [] last = "schema_selection" -> "disambiguation"
    [] last = "disambiguation" -> "generation"
    [] last = "generation" -> "correction"
    [] last = "correction" /\ content = "executing" -> "correction"
    [] last = "correction" /\ content = "needs_fixes" -> "generation"
    [] last = "correction" /\ content = "error" -> "generation"
    [] last = "correction" /\ content = "validated" -> "answer"
    [] OTHER -> "TERMINATE"

\* Faulty variant of select_next_agent: schema selection hands over to
\* generation without the disambiguation agent.
select_next_agent_skips_disambiguation(last, content) ==
  CASE last = "user" -> "query_rewrite"
    [] last = "query_rewrite" ->
         IF use_query_cache THEN "cache" ELSE "schema_selection"
    [] last = "cache" /\ content = "hit_pre_run" -> "correction"
    [] last = "cache" /\ content = "hit_no_pre_run" -> "generation"
    [] last = "cache" /\ content = "miss" -> "schema_selection"
    [] last = "schema_selection" -> "generation"
    [] last = "disambiguation" -> "generation"
    [] last = "generation" -> "correction"
    [] last = "correction" /\ content = "executing" -> "correction"
    [] last = "correction" /\ content = "needs_fixes" -> "generation"
    [] last = "correction" /\ content = "error" -> "generation"
    [] last = "correction" /\ content = "validated" -> "answer"
    [] OTHER -> "TERMINATE"

\* Faulty variant of select_next_agent: a query that still needs fixes is
\* handed to the answer agent.
select_next_agent_answers_unvalidated(last, content) ==
  CASE last = "user" -> "query_rewrite"
    [] last = "query_rewrite" ->
         IF use_query_cache THEN "cache" ELSE "schema_selection"
    [] last = "cache" /\ content = "hit_pre_run" -> "correction"
    [] last = "cache" /\ content = "hit_no_pre_run" -> "generation"
    [] last = "cache" /\ content = "miss" -> "schema_selection"
    [] last = "schema_selection" -> "disambiguation"
    [] last = "disambiguation" -> "generation"
    [] last = "generation" -> "correction"
    [] last = "correction" /\ content = "executing" -> "correction"
    [] last = "correction" /\ content = "needs_fixes" -> "answer"
    [] last = "correction" /\ content = "error" -> "generation"
    [] last = "correction" /\ content = "validated" -> "answer"
    [] OTHER -> "TERMINATE"

\* The unified selector: next agent from the source and content of the last message.
select_next_agent(last, content) ==
  CASE last = "user" -> "query_rewrite"
    [] last = "query_rewrite" ->
         IF use_query_cache THEN "cache" ELSE "schema_selection"
    [] last = "cache" /\ content = "hit_pre_run" -> "correction"
    [] last = "cache" /\ content = "hit_no_pre_run" -> "generation"
    [] last = "cache" /\ content = "miss" -> "schema_selection"
    [] last = "schema_selection" -> "disambiguation"
    [] last = "disambiguation" -> "generation"
    [] last = "generation" -> "correction"
    [] last = "correction" /\ content = "executing" -> "correction"
    [] last = "correction" /\ content = "needs_fixes" -> "generation"
    [] last = "correction" /\ content = "error" -> "generation"
    [] last = "correction" /\ content = "validated" -> "answer"
    [] OTHER -> "TERMINATE"

\* ------------------------------------------------------------------ tools

\* sql_query_validation_tool: accepts a single SELECT only.
validate_sql(sql) == sql = "select"

\* ------------------------------------------------------------ query cache

\* Faulty variant of CacheEntry: the result rows are stored with the query.
CacheEntryWithRows(sql, rows) == [sql |-> sql, rows |-> rows]

\* Entry written to the cache index: the query and its schemas, no result rows.
CacheEntry(sql, rows) == [sql |-> sql, rows |-> 0]

\* Faulty variant of PreRunRows: rows fetched during the first invocation are
\* served whether or not the query ran now.
PreRunRowsStale(entry, ok) == 1

\* Rows attached to a cache hit: only those of the execution made at lookup.
PreRunRows(entry, ok) == IF ok THEN invocation ELSE 0

\* Faulty variant of PreRunHit: a hit whose pre-run failed is still announced
\* as a hit with pre-run results.
PreRunHitUnchecked(e, ok) ==
  [content |-> "hit_pre_run", sql |-> e.sql, rows |-> PreRunRows(e, ok)]

\* The hit for entry e when pre-run is enabled: the rendered SQL was executed
\* and succeeded or not (ok); a failed execution leaves a hit without results.
PreRunHit(e, ok) ==
  [content |-> IF ok THEN "hit_pre_run" ELSE "hit_no_pre_run",
   sql |-> e.sql, rows |-> PreRunRows(e, ok)]

\* The hits a lookup for question q in cache index c can return.
CacheHits(c, q) ==
  LET e == c[q] IN
  IF e.sql = "none" THEN {}
  ELSE IF ~pre_run_query_cache
  THEN {[content |-> "hit_no_pre_run", sql |-> e.sql, rows |-> 0]}
  ELSE {PreRunHit(e, ok) : ok \in BOOLEAN}

\* Search scores in hundredths.  The threshold is configurable; the scores
\* that matter are those just below it, at it, just above it and the score
\* of a question with exactly the text of the entry.
cache_hit_threshold == 85

ExactScore == 100

Scores == {cache_hit_threshold - 1, cache_hit_threshold, cache_hit_threshold + 1,
           ExactScore}

TopScores(exact) == IF exact THEN {ExactScore} ELSE Scores

\* The top result counts when its score is higher than the threshold.
IsCacheHit(score, threshold) == score > threshold

CacheMiss == [content |-> "miss", sql |-> "none", rows |-> 0]

\* The results of a lookup whose top result, if there is one, has this score.
CacheReadAt(c, q, score) ==
  IF c[q].sql # "none" /\ IsCacheHit(score, cache_hit_threshold)
  THEN CacheHits(c, q)
  ELSE {CacheMiss}

\* The results a lookup can return.  A hit needs an entry whose score passes
\* the threshold: the entry of a question with exactly the text asked does,
\* the entry of a merely similar question may or may not.
CacheRead(c, q, exact) == UNION {CacheReadAt(c, q, s) : s \in TopScores(exact)}

\* fetch_sql_queries_with_schemas_from_cache: the possible results of a lookup
\* for question q, asked in the words of the cached question or in others.
CacheLookups(q) == UNION {CacheRead(cache, q, exact) : exact \in BOOLEAN}

\* Faulty variant of CacheWrite: an entry already in the index is kept.
CacheWriteKeepFirst(c, q, sql) ==
  IF c[q].sql = "none" THEN [c EXCEPT ![q] = CacheEntry(sql, invocation)] ELSE c

\* The cache index after the entry of question q is written.
CacheWrite(c, q, sql) == [c EXCEPT ![q] = CacheEntry(sql, invocation)]

\* run_sql_query updates the cache index with the query that was run.
UpdateCache(q, sql, ok) ==
  IF use_query_cache /\ ok
  THEN CacheWrite(cache, q, sql)
  ELSE cache

\* ----------------------------------------------------------- sub-Run flow

\* Outcome of an inner Run from the message that stopped it.
Outcome(content) ==
  CASE content = "request" -> "awaiting_clarification"
    [] content = "validated" -> "succeeded"
    [] OTHER -> "failed"

ErrorOf(content) ==
  CASE content \in {"request", "validated"} -> "none"
    [] content = "unrecoverable" -> "unrecoverable_error"
    [] OTHER -> "max_messages"

\* What is left of a sub-question once its inner Run is destroyed.
SubQuestion(status, sql, rows, error) ==
  [status |-> status, last |-> "none", content |-> "none", n |-> 0,
   sql |-> sql, rows |-> rows, error |-> error]

\* The thread of s after `agent` appended message number n1; the termination
\* conditions are evaluated on every new message.  A Run stopped by the
\* message limit reports the length its thread had.
AppendMessage(s, agent, content, sql, rows, n1) ==
  LET done == termination_condition(content, n1)
      st == IF done THEN Outcome(content) ELSE "running"
  IN IF st \in {"running", "awaiting_clarification"}
     THEN [status |-> st, last |-> agent, content |-> content, n |-> n1,
           sql |-> sql, rows |-> rows, error |-> "none"]
     ELSE IF st = "succeeded"
     THEN SubQuestion(st, sql, rows, "none")
     ELSE [SubQuestion(st, "none", 0, ErrorOf(content)) EXCEPT
             !.n = IF ErrorOf(content) = "max_messages" THEN n1 ELSE 0]

\* Faulty variant of Deliver: the new message is not counted.
DeliverUncounted(s, agent, content, sql, rows) ==
  AppendMessage(s, agent, content, sql, rows, s.n)

Deliver(s, agent, content, sql, rows) ==
  AppendMessage(s, agent, content, sql, rows, s.n + 1)

Running(i) == pc = "round" /\ subs[i].status = "running"

\* Faulty variant of Selected: the cancel flag is not looked at.
SelectedIgnoringCancel(i) ==
  IF Running(i)
  THEN select_next_agent(subs[i].last, subs[i].content)
  ELSE "none"

\* The agent the selector picks for sub-Run i; the cancel flag is checked
\* between agent invocations.
Selected(i) ==
  IF Running(i) /\ ~cancel
  THEN select_next_agent(subs[i].last, subs[i].content)
  ELSE "none"

outer == <<invocation, pc, out, state_store, resumed, rewrites, entry_agent,
           decomposition, current_round, cancel, sources, inner_runs>>

CacheAgent(i) ==
  /\ Selected(i) = "cache"
  /\ \E r \in CacheLookups(QuestionOf(i)) :
       /\ subs' = [subs EXCEPT ![i] = Deliver(@, "cache", r.content, r.sql, r.rows)]
  /\ UNCHANGED <<config, outer, cache>>

SchemaSelectionAgent(i) ==
  /\ Selected(i) = "schema_selection"
  /\ subs' = [subs EXCEPT ![i] = Deliver(@, "schema_selection", "schemas", "none", 0)]
  /\ UNCHANGED <<config, outer, cache>>

DisambiguationAgent(i) ==
  /\ Selected(i) = "disambiguation"
  /\ \E c \in {"mapping", "request"} :
       subs' = [subs EXCEPT ![i] = Deliver(@, "disambiguation", c, "none", 0)]
  /\ UNCHANGED <<config, outer, cache>>

\* Generation writes the query and leaves syntax and execution to Correction.
GenerationAgent(i) ==
  /\ Selected(i) = "generation"
  /\ subs' = [subs EXCEPT ![i] = Deliver(@, "generation", "sql", "none", 0)]
  /\ UNCHANGED <<config, outer, cache>>

\* Statements the Correction agent may hand to sql_query_execution_tool: the
\* query it was given or any edit of it, whatever the model produced.
CorrectionExecutes(sql) == SqlKinds

\* Correction with pre-run rows at hand may accept them without a new query.
CorrectionAccepts(i) ==
  /\ Selected(i) = "correction"
  /\ subs[i].rows # 0
  /\ subs' = [subs EXCEPT ![i] = Deliver(@, "correction", "validated", @.sql, @.rows)]
  /\ UNCHANGED <<config, outer, cache>>

\* Correction executes the query; on success it accepts the result or asks for
\* fixes, on failure it retries with a corrected query, reports the error or
\* gives up.
CorrectionAgent(i) ==
  /\ Selected(i) = "correction"
  /\ \E k \in CorrectionExecutes(subs[i].sql), ok \in BOOLEAN :
       /\ cache' = UpdateCache(QuestionOf(i), k, ok)
       /\ IF ok
          THEN \/ subs' = [subs EXCEPT ![i] =
                             Deliver(@, "correction", "validated", k, invocation)]
               \/ subs' = [subs EXCEPT ![i] =
                             Deliver(@, "correction", "needs_fixes", "none", 0)]
          ELSE \E c \in {"executing", "error", "unrecoverable"} :
                 subs' = [subs EXCEPT ![i] =
                            Deliver(@, "correction", c, "none", 0)]
  /\ UNCHANGED <<config, outer>>

\* A tool call that keeps failing ends the sub-Run with its error recorded.
ToolFailure(i) ==
  /\ Selected(i) \in {"cache", "schema_selection", "correction"}
  /\ subs' = [subs EXCEPT ![i] = SubQuestion("failed", "none", 0, "tool_failure")]
  /\ UNCHANGED <<config, outer, cache>>

\* Faulty variant of Cancelled: the sub-Run stops without recording why.
CancelledUnrecorded(i) ==
  /\ Running(i)
  /\ cancel
  /\ subs' = [subs EXCEPT ![i] = SubQuestion("failed", "none", 0, "none")]
  /\ UNCHANGED <<config, outer, cache>>

\* A sub-Run that finds the cancel flag set stops before its next agent.
Cancelled(i) ==
  /\ Running(i)
  /\ cancel
  /\ subs' = [subs EXCEPT ![i] = SubQuestion("failed", "none", 0, "cancelled")]
  /\ UNCHANGED <<config, outer, cache>>

\* ----------------------------------------------------------- orchestrator

Terminal == {"AnswerWithSources", "Disambiguation", "Error"}

\* decomposed_user_messages: up to MaxRounds rounds of one or two sub-questions;
\* the empty list stands for all_non_database_query or no sub-question.
Decompositions == UNION {[1..r -> 1..Cardinality(SubIds)] : r \in 0..MaxRounds}

RECURSIVE Total(_)
Total(d) == IF d = <<>> THEN 0 ELSE Head(d) + Total(Tail(d))

\* One inner Run per sub-question of the round, each with its own thread that
\* starts with the rewritten sub-question.
Spawn(size) ==
  [i \in SubIds |->
     IF i <= size
     THEN [status |-> "running", last |-> "query_rewrite", content |-> "question",
           n |-> 1, sql |-> "none", rows |-> 0, error |-> "none"]
     ELSE NoSub]

Active == {i \in SubIds : subs[i].status # "none"}

\* The outer Run as the orchestrator holds it.
RunState ==
  [decomposition |-> decomposition, current_round |-> current_round,
   subs |-> subs, sources |-> sources]

\* Faulty variant of serialize_thread: the message count is not written.
serialize_thread_uncounted(s) ==
  <<s.status, s.last, s.content, 0, s.sql, s.rows, s.error>>

\* An agent thread in the State Store: its fields in a fixed order.
serialize_thread(s) ==
  <<s.status, s.last, s.content, s.n, s.sql, s.rows, s.error>>

deserialize_thread(m) ==
  [status |-> m[1], last |-> m[2], content |-> m[3], n |-> m[4],
   sql |-> m[5], rows |-> m[6], error |-> m[7]]

\* State Store entry of a Run: its rounds, its position and its threads.
serialize(run) ==
  [present |-> TRUE, decomposition |-> run.decomposition,
   current_round |-> run.current_round,
   serialized_agent_threads |-> [i \in SubIds |-> serialize_thread(run.subs[i])],
   sources |-> run.sources]

deserialize(entry) ==
  [decomposition |-> entry.decomposition, current_round |-> entry.current_round,
   subs |-> [i \in SubIds |-> deserialize_thread(entry.serialized_agent_threads[i])],
   sources |-> entry.sources]

\* The State Store entry of a thread without a persisted Run.
NoState ==
  [serialize([decomposition |-> <<>>, current_round |-> 0,
              subs |-> [i \in SubIds |-> NoSub], sources |-> <<>>])
     EXCEPT !.present = FALSE]

Snapshot == serialize(RunState)

Init ==
  /\ use_query_cache \in BOOLEAN
  /\ pre_run_query_cache \in BOOLEAN
  /\ invocation = 0
  /\ pc = "idle"
  /\ out = <<>>
  /\ state_store = NoState
  /\ resumed = FALSE
  /\ rewrites = 0
  /\ entry_agent = "none"
  /\ decomposition = <<>>
  /\ current_round = 0
  /\ subs = [i \in SubIds |-> NoSub]
  /\ cancel = FALSE
  /\ sources = <<>>
  /\ inner_runs = 0
  /\ cache = [q \in Questions |-> NoEntry]

\* process_user_message, step 1: resume the Run from the State Store if the
\* thread has an entry, otherwise create a new Run; the user message is the
\* last message of the thread and the selector picks the first agent.
ProcessUserMessage ==
  /\ pc = "idle"
  /\ invocation < MaxInvocations
  /\ invocation' = invocation + 1
  /\ out' = <<>>
  /\ cancel' = FALSE
  /\ entry_agent' = "none"
  /\ IF state_store.present
     THEN /\ resumed' = TRUE
          /\ rewrites' = rewrites
          /\ decomposition' = deserialize(state_store).decomposition
          /\ current_round' = deserialize(state_store).current_round
          /\ subs' = deserialize(state_store).subs
          /\ sources' = deserialize(state_store).sources
     ELSE /\ resumed' = FALSE
          /\ rewrites' = 0
          /\ decomposition' = <<>>
          /\ current_round' = 0
          /\ subs' = [i \in SubIds |-> NoSub]
          /\ sources' = <<>>
  /\ pc' = select_next_agent("user", "none")
  /\ UNCHANGED <<config, state_store, inner_runs, cache>>

\* Faulty variant of QueryRewrite: an empty decomposition is run as one
\* sub-question instead of short-circuiting.
QueryRewriteNoShortCircuit ==
  /\ pc = "query_rewrite"
  /\ rewrites' = rewrites + 1
  /\ entry_agent' = IF entry_agent = "none" THEN "query_rewrite" ELSE entry_agent
  /\ sources' = <<>>
  /\ \E d \in Decompositions :
       /\ inner_runs + Total(d) <= MaxInnerRuns
       /\ inner_runs' = inner_runs + Total(d)
       /\ decomposition' = d
       /\ current_round' = 1
       /\ subs' = Spawn(IF d = <<>> THEN 1 ELSE d[1])
       /\ out' = Append(out, "ProcessingUpdate")
       /\ pc' = "round"
  /\ UNCHANGED <<config, invocation, state_store, resumed, cancel, cache>>

\* Step 2: the Query Rewrite agent decomposes the message; an empty
\* decomposition short-circuits with an answer from the rewriter alone.
QueryRewrite ==
  /\ pc = "query_rewrite"
  /\ rewrites' = rewrites + 1
  /\ entry_agent' = IF entry_agent = "none" THEN "query_rewrite" ELSE entry_agent
  /\ sources' = <<>>
  /\ \E d \in Decompositions :
       /\ inner_runs + Total(d) <= MaxInnerRuns
       /\ inner_runs' = inner_runs + Total(d)
       /\ decomposition' = d
       /\ IF d = <<>>
          THEN /\ current_round' = 0
               /\ subs' = [i \in SubIds |-> NoSub]
               /\ out' = Append(out, "AnswerWithSources")
               /\ pc' = "clear"
          ELSE /\ current_round' = 1
               /\ subs' = Spawn(d[1])
               /\ out' = Append(out, "ProcessingUpdate")
               /\ pc' = "round"
  /\ UNCHANGED <<config, invocation, state_store, resumed, cancel, cache>>

\* Faulty variant of Finished: an inner Run counts as finished once started.
FinishedOrStarted(i) == subs[i].status # "none"

Finished(i) == subs[i].status \in {"succeeded", "failed", "awaiting_clarification"}

\* An inner Run ended in an Error from which the round cannot recover.
Unrecoverable(i) ==
  /\ subs[i].status = "failed"
  /\ \/ subs[i].error \in {"unrecoverable_error", "max_messages", "cancelled"}
     \/ decomposition[current_round] = 1

\* Step 3, abort: an unrecoverable Error of one inner Run sets the cancel flag
\* for the sub-questions of the round that are still running.
AbortRound ==
  /\ pc = "round"
  /\ ~cancel
  /\ \E i \in Active : Unrecoverable(i)
  /\ \E j \in Active : subs[j].status = "running"
  /\ cancel' = TRUE
  /\ UNCHANGED <<config, invocation, pc, out, state_store, resumed, rewrites,
                 entry_agent, decomposition, current_round, subs, sources,
                 inner_runs, cache>>

\* The source a finished sub-question contributes, failures with error populated.
SourceOf(i) ==
  [round |-> current_round, index |-> i, sql |-> subs[i].sql,
   rows |-> subs[i].rows, error |-> subs[i].error]

\* Faulty variant of RoundSources: the sources of the round in reverse order.
RoundSourcesReversed ==
  [i \in 1..decomposition[current_round] |->
     SourceOf(decomposition[current_round] + 1 - i)]

RoundSources ==
  [i \in 1..decomposition[current_round] |-> SourceOf(i)]

Succeeded(srcs) == \E k \in 1..Len(srcs) : srcs[k].error = "none"

\* Faulty variant of RoundComplete: the first terminal payload ends the wait.
RoundCompleteAny == \E i \in Active : Finished(i)

\* Every inner Run of the round has its terminal payload.
RoundComplete == \A i \in Active : Finished(i)

\* Step 3, collect: every inner Run of the round has its terminal payload.
CollectRound ==
  /\ pc = "round"
  /\ RoundComplete
  /\ IF \E i \in Active : subs[i].status = "awaiting_clarification"
     THEN /\ pc' = "persist"
          /\ UNCHANGED <<out, sources, current_round, subs, cancel>>
     ELSE IF \E i \in Active : Unrecoverable(i)
     THEN /\ out' = Append(out, "Error")
          /\ pc' = "idle"
          /\ UNCHANGED <<sources, current_round, subs, cancel>>
     ELSE LET all == sources \o RoundSources IN
          /\ sources' = all
          /\ IF current_round < Len(decomposition)
             THEN /\ current_round' = current_round + 1
                  /\ subs' = Spawn(decomposition[current_round + 1])
                  /\ pc' = "round"
                  /\ UNCHANGED <<out, cancel>>
             ELSE IF Succeeded(all)
             THEN /\ pc' = "answer"
                  /\ UNCHANGED <<out, current_round, subs, cancel>>
             ELSE /\ out' = Append(out, "Error")
                  /\ pc' = "idle"
                  /\ UNCHANGED <<current_round, subs, cancel>>
  /\ UNCHANGED <<config, invocation, state_store, resumed, rewrites, entry_agent,
                 decomposition, inner_runs, cache>>

\* Faulty variant of PersistRun: the State Store is not written.
PersistRunSkipped ==
  /\ pc = "persist"
  /\ pc' = "disambiguation_request"
  /\ UNCHANGED <<config, invocation, out, state_store, resumed, rewrites,
                 entry_agent, decomposition, current_round, subs, cancel, sources,
                 inner_runs, cache>>

\* Step 3, suspension: the outer Run is persisted, then the aggregated
\* Disambiguation is emitted and the Run suspends.
PersistRun ==
  /\ pc = "persist"
  /\ state_store' = Snapshot
  /\ pc' = "disambiguation_request"
  /\ UNCHANGED <<config, invocation, out, resumed, rewrites, entry_agent,
                 decomposition, current_round, subs, cancel, sources, inner_runs,
                 cache>>

EmitDisambiguation ==
  /\ pc = "disambiguation_request"
  /\ out' = Append(out, "Disambiguation")
  /\ pc' = "idle"
  /\ UNCHANGED <<config, invocation, state_store, resumed, rewrites, entry_agent,
                 decomposition, current_round, subs, cancel, sources, inner_runs,
                 cache>>

\* Faulty variant of AnswerAndSources: the answer is not emitted.
AnswerAndSourcesSilent ==
  /\ pc = "answer"
  /\ pc' = "clear"
  /\ UNCHANGED <<config, invocation, out, state_store, resumed, rewrites,
                 entry_agent, decomposition, current_round, subs, cancel, sources,
                 inner_runs, cache>>

\* Step 4: the Answer and Sources agent combines the accumulated sources.
AnswerAndSources ==
  /\ pc = "answer"
  /\ out' = Append(out, "AnswerWithSources")
  /\ pc' = "clear"
  /\ UNCHANGED <<config, invocation, state_store, resumed, rewrites, entry_agent,
                 decomposition, current_round, subs, cancel, sources, inner_runs,
                 cache>>

\* Step 5: the thread is cleared from the State Store.
ClearState ==
  /\ pc = "clear"
  /\ state_store' = NoState
  /\ pc' = "idle"
  /\ UNCHANGED <<config, invocation, out, resumed, rewrites, entry_agent,
                 decomposition, current_round, subs, cancel, sources, inner_runs,
                 cache>>

SubRunStep ==
  \E i \in SubIds :
    \/ CacheAgent(i)
    \/ SchemaSelectionAgent(i)
    \/ DisambiguationAgent(i)
    \/ GenerationAgent(i)
    \/ CorrectionAccepts(i)
    \/ CorrectionAgent(i)
    \/ ToolFailure(i)
    \/ Cancelled(i)

\* Every step of an invocation in progress.
RunStep ==
  \/ QueryRewrite
  \/ SubRunStep
  \/ AbortRound
  \/ CollectRound
  \/ PersistRun
  \/ EmitDisambiguation
  \/ AnswerAndSources
  \/ ClearState

Next == ProcessUserMessage \/ RunStep

Spec == Init /\ [][Next]_vars

\* The cooperative scheduler keeps running the tasks of an invocation in progress.
FairSpec == Spec /\ WF_vars(RunStep)

\* ------------------------------------------------------------- properties

Emitted(payload) == Len(out) > 0 /\ out[Len(out)] = payload

\* An invocation has returned: its payload sequence is complete.
Returned == pc = "idle" /\ invocation > 0

AnySucceeded ==
  \/ Succeeded(sources)
  \/ \E i \in Active : subs[i].status = "succeeded"

\* C1: the payload sequence of every process_user_message holds exactly one
\* terminal payload, it is the last element, everything before it is a progress
\* update, and nothing follows it on any path.
TerminalPayloadLast ==
  /\ \A k \in 1..Len(out) :
       /\ out[k] \in Terminal \cup {"ProcessingUpdate"}
       /\ out[k] \in Terminal => k = Len(out)
  /\ Returned => \E p \in Terminal : Emitted(p)

\* A cancelled round ended the invocation with an Error after a progress update.
TerminalAfterCancellation ==
  /\ Returned
  /\ cancel
  /\ out = <<"ProcessingUpdate", "Error">>

MessageCountBounded ==
  /\ \A i \in SubIds : subs[i].n <= max_messages
  /\ \A i \in SubIds : deserialize(state_store).subs[i].n <= max_messages

\* A thread reached the limit.
ThreadAtMessageLimit == \E i \in SubIds : subs[i].n = max_messages

\* Statements whose execution against the database succeeded and is on record:
\* the queries of the sources and the queries written to the cache.
ExecutedSql ==
  {subs[i].sql : i \in {j \in Active : subs[j].status = "succeeded"}}
  \cup {sources[k].sql : k \in {j \in 1..Len(sources) : sources[j].error = "none"}}
  \cup {cache[q].sql : q \in {r \in Questions : cache[r].sql # "none"}}

\* C4: every statement executed against the database is a single SELECT, one
\* that validate_sql accepts.
OnlySelectExecuted == \A s \in ExecutedSql : validate_sql(s)

\* C5: a terminal Error is emitted only when no sub-Run of the Run succeeded.
ErrorOnlyWhenNothingSucceeded == (Returned /\ Emitted("Error")) => ~AnySucceeded

\* Rows held by the sub-questions and the accumulated sources (0: no rows).
RowsInUse ==
  {subs[i].rows : i \in SubIds} \cup {sources[k].rows : k \in 1..Len(sources)}

\* C6: rows of a source, and rows handed over by a cache hit, come from an
\* execution made during the current invocation (rows carry the number of the
\* invocation that fetched them).  The state just loaded from the State Store
\* is exempt until Query Rewrite has replaced it.
SourcesAreLive == pc # "query_rewrite" => RowsInUse \subseteq {0, invocation}

\* A later invocation hit the cache and the pre-run fetched rows.
PreRunHitInLaterInvocation ==
  /\ invocation = 2
  /\ \E i \in SubIds : subs[i].content = "hit_pre_run" /\ subs[i].rows = 2

\* C7: no entry of the query cache holds result rows.
CacheHoldsNoRows == \A q \in Questions : cache[q].rows = 0

\* An entry written by an earlier invocation is still in the cache.
CacheEntrySurvivesInvocation ==
  /\ invocation = 2
  /\ pc = "query_rewrite"
  /\ \E q \in Questions : cache[q].sql # "none"

\* C8: when an inner Run of a round asks for disambiguation, the outer Run is
\* in the State Store (all rounds and indices) before the Disambiguation
\* payload is emitted, the invocation then returns, the Answer and Sources
\* agent is not invoked and no later round is started.
PersistedBeforeDisambiguation ==
  /\ (pc = "disambiguation_request" \/ Emitted("Disambiguation")) =>
       /\ state_store = Snapshot
       /\ \E i \in Active : subs[i].status = "awaiting_clarification"
  /\ Emitted("Disambiguation") => pc = "idle"
  /\ (\E i \in Active : subs[i].status = "awaiting_clarification") =>
       pc \notin {"answer", "clear"}

\* The Run suspended in its first round with a second round still to run.
SuspendedBeforeLaterRound ==
  /\ Emitted("Disambiguation")
  /\ current_round = 1
  /\ Len(decomposition) = 2

\* C9: an invocation that resumes a suspended Run enters the flow at the
\* Generation agent.
ResumesAtGeneration ==
  (resumed /\ entry_agent # "none") => entry_agent = "generation"

\* C10: Query Rewrite is invoked at most once per Run, resumptions included.
QueryRewriteOncePerRun == rewrites <= 1

\* C11: at the end of an invocation that emitted AnswerWithSources the State
\* Store holds no entry for the thread, and at the end of any invocation it
\* holds one exactly when the Run is suspended awaiting a disambiguation reply.
StateStoreEntryIffSuspended ==
  Returned =>
    /\ Emitted("AnswerWithSources") => ~state_store.present
    /\ state_store.present <=> Emitted("Disambiguation")

\* The last message of thread s mentions TERMINATE or holds answer and sources,
\* or the thread has reached the message limit.
Terminated(s) ==
  \/ HasTerminate(s.content)
  \/ HasAnswerAndSources(s.content)
  \/ s.n >= max_messages

MessageSources ==
  {"user", "query_rewrite", "cache", "schema_selection", "disambiguation",
   "generation", "correction"}

MessageContents ==
  {"none", "question", "hit_pre_run", "hit_no_pre_run", "miss", "schemas",
   "mapping", "request", "sql", "executing", "needs_fixes", "error",
   "unrecoverable", "validated"}

PositionOf(round, index) == Total(SubSeq(decomposition, 1, round - 1)) + index

ShortCircuited == entry_agent = "query_rewrite" /\ decomposition = <<>>

Advanced(i) == subs[i].status = "running" /\ subs'[i] # subs[i]

\* The last message of thread s is a cache hit.
CacheHit(s) == s.last = "cache" /\ s.content \in {"hit_pre_run", "hit_no_pre_run"}

\* The messages that can follow a cache hit on a thread.
AfterHit(s) == CacheHit(s) \/ s.last \in {"generation", "correction"}

\* C21: after a message of the cache agent the selector picks correction on a
\* hit with pre-run results, generation on a hit without, schema selection on
\* a miss; the agent that acts next is the one picked, and a thread that holds
\* a hit is never extended by schema selection or disambiguation.
CacheBranch ==
  /\ [](/\ select_next_agent("cache", "hit_pre_run") = "correction"
        /\ select_next_agent("cache", "hit_no_pre_run") = "generation"
        /\ select_next_agent("cache", "miss") = "schema_selection")
  /\ [][\A i \in SubIds :
          (Advanced(i) /\ AfterHit(subs[i])) =>
             \/ subs'[i].status # "running"
             \/ /\ AfterHit(subs'[i])
                /\ ~CacheHit(subs'[i])
                /\ CacheHit(subs[i]) =>
                     subs'[i].last = (IF subs[i].content = "hit_pre_run"
                                      THEN "correction" ELSE "generation")]_vars

\* Generation wrote its query straight after a cache hit without pre-run
\* results: the thread holds the question, the hit and the query.
GenerationAfterCacheHit ==
  \E i \in SubIds :
    /\ Running(i)
    /\ subs[i].last = "generation"
    /\ subs[i].n = 3
    /\ use_query_cache

\* C22: the disambiguation agent is selected after schema selection only when
\* an ambiguity was detected, generation being selected otherwise: no thread
\* holds a disambiguation message that found every mapping clear.
DisambiguationOnlyWhenNeeded ==
  \A i \in SubIds :
    subs[i].last = "disambiguation" => subs[i].content = "request"

\* C23: after a message of the schema selection agent the selector picks the
\* disambiguation agent whatever the message holds; the next message of the
\* thread comes from disambiguation, and generation never extends a thread
\* that ends with the schema selection message.
SchemaSelectionThenDisambiguation ==
  /\ [](\A c \in MessageContents :
          select_next_agent("schema_selection", c) = "disambiguation")
  /\ [][\A i \in SubIds :
          (Advanced(i) /\ subs[i].last = "schema_selection") =>
             /\ subs'[i].status = "running" => subs'[i].last = "disambiguation"
             /\ subs'[i].last # "generation"]_vars

\* The disambiguation agent ran after schema selection on a cache miss and
\* found every mapping clear.
DisambiguationAfterSchemaSelection ==
  \E i \in SubIds :
    /\ Running(i)
    /\ use_query_cache
    /\ subs[i].last = "disambiguation"
    /\ subs[i].content = "mapping"
    /\ subs[i].n = 4

max_correction_attempts == 5

\* The fewest executions the thread of s can hold.  At most four messages
\* precede the loop (question, cache miss, schemas, mapping); in the loop no
\* generation message follows another, so at least every second message is a
\* message of Correction, and Correction executes the query on each turn.
MinExecutions(s) == IF s.n > 4 THEN (s.n - 4) \div 2 ELSE 0

\* C26: within one sub-Run the Correction agent executes SQL at most
\* max_correction_attempts times, returns from Generation included.
CorrectionAttemptsBounded ==
  \A i \in SubIds : MinExecutions(subs[i]) <= max_correction_attempts

\* C28: with pre-run enabled, a hit whose rendered SQL failed to execute is a
\* hit without pre-run results: it carries no rows, the selector picks
\* generation after it, and the inner Run goes on; no thread holds a hit
\* without pre-run results that carries rows or that stopped the Run.
FailedPreRunDemotesHit ==
  /\ \A q \in Questions :
       cache[q].sql # "none" =>
         LET r == PreRunHit(cache[q], FALSE) IN
         /\ r.rows = 0
         /\ select_next_agent("cache", r.content) = "generation"
         /\ \A i \in SubIds :
              Selected(i) = "cache" =>
                Deliver(subs[i], "cache", r.content, r.sql, r.rows).status = "running"
  /\ \A i \in SubIds :
       (subs[i].last = "cache" /\ subs[i].content = "hit_no_pre_run") =>
          /\ subs[i].rows = 0
          /\ subs[i].status = "running"
          /\ subs[i].error = "none"

\* With pre-run enabled a thread holds a hit without pre-run results: the
\* execution of the cached query failed, and generation is picked next.
PreRunFailedOnHit ==
  \E i \in SubIds :
    /\ pre_run_query_cache
    /\ subs[i].last = "cache"
    /\ subs[i].content = "hit_no_pre_run"
    /\ Selected(i) = "generation"

\* C29: after a cache hit with pre-run results the sub-Run goes from the cache
\* agent to a single turn of Correction and ends there: unless that turn
\* fails, its message ends the sub-Run with a source whose query is the cached
\* query that was executed, and no other agent is invoked.
PreRunHitEndsAtCorrection ==
  [][\A i \in SubIds :
       (/\ Advanced(i)
        /\ subs[i].last = "cache"
        /\ subs[i].content = "hit_pre_run"
        /\ subs'[i].status # "failed") =>
          /\ subs'[i].status = "succeeded"
          /\ subs'[i].sql = subs[i].sql]_vars

\* C30: a lookup is a hit exactly when the top score is greater than or equal
\* to cache_hit_threshold (a score equal to the threshold is a hit), and a
\* lookup that finds no entry is a miss.
HitAtOrAboveThreshold ==
  \A q \in Questions, s \in Scores :
    IF cache[q].sql = "none"
    THEN CacheReadAt(cache, q, s) = {CacheMiss}
    ELSE IF s >= cache_hit_threshold
    THEN CacheMiss \notin CacheReadAt(cache, q, s)
    ELSE CacheReadAt(cache, q, s) = {CacheMiss}

\* C31: a cache entry is written for a sub-question only once its Run has
\* succeeded: the cache changes only in a step that ends an inner Run with
\* outcome succeeded, never in a step after which the Run goes on or fails.
CacheWrittenOnSuccessOnly ==
  [][cache' # cache =>
       \E i \in SubIds :
         subs[i].status = "running" /\ subs'[i].status = "succeeded"]_vars

\* An inner Run of the round ended in an Error the round cannot recover from.
RoundFailed == \E i \in Active : Unrecoverable(i)

RoundAwaiting == \E i \in Active : subs[i].status = "awaiting_clarification"

SubRunsDoNotInterfere ==
  [][\A i \in SubIds :
       (/\ Running(i)
        /\ subs'[i] = subs[i]
        /\ pc' = "round"
        /\ select_next_agent(subs[i].last, subs[i].content) = "cache") =>
          CacheLookups(QuestionOf(i))' = CacheLookups(QuestionOf(i))]_vars

\* C39: the Answer and Sources agent runs only in the last round, when every
\* sub-question of every round has a terminal outcome and none is running or
\* awaiting clarification; it runs once, its payload ends the invocation, and
\* the invocation that follows an answer starts a new Run.
AnswerAfterAllRounds ==
  /\ [](pc = "answer" =>
          /\ current_round = Len(decomposition)
          /\ Len(sources) = Total(decomposition)
          /\ \A i \in Active : subs[i].status \in {"succeeded", "failed"}
          /\ \A k \in 1..Len(out) : out[k] # "AnswerWithSources")
  /\ [][/\ pc = "answer" => pc' \in {"answer", "clear"}
        /\ pc' = "answer" => pc \in {"answer", "round"}
        /\ (Returned /\ Emitted("AnswerWithSources") /\ invocation' # invocation) =>
             ~resumed']_vars

\* The Answer and Sources agent is about to combine the sources of two rounds.
AnswerOverTwoRounds ==
  /\ pc = "answer"
  /\ Len(decomposition) = 2
  /\ Len(sources) = 2
  /\ sources[1].round = 1
  /\ sources[2].round = 2

\* C40: every sequence of agents the selector produces for a sub-question is
\* a path of the per-sub-question state machine, on which GENERATING comes
\* before CORRECTING: the Correction agent is selected only on a thread whose
\* last message comes from Generation or from Correction itself.
CorrectionAfterGeneration ==
  \A i \in SubIds :
    Selected(i) = "correction" => subs[i].last \in {"generation", "correction"}


====
